---- MODULE Spec2Model ----
(***************************************************************************)
(* BMI calculator form controller (src/script.js).                         *)
(*                                                                         *)
(* Numbers.  The script computes in IEEE doubles.  The model computes the  *)
(* same expressions, operation by operation, in exact rationals <<n, d>>   *)
(* (d > 0).  The two differ only where a computed value sits exactly on a  *)
(* rounding tie of toFixed(1): there the double may lie on either side of  *)
(* the tie, so toFixed is modelled as yielding either neighbouring tenth.  *)
(* Field texts are sequences of one-character strings over the alphabet    *)
(* digits, sign, blank and one non-numeric letter; the decimal point and   *)
(* exponents are left out of the alphabet, so parsed values are integers.  *)
(***************************************************************************)
EXTENDS Integers, Sequences, FiniteSets, TLC

VARIABLES
    value,                  \* field id -> text of the <input>'s .value
    metricContainer,        \* style.display of #metric-container
    imperialContainer,      \* style.display of #imperial-container
    welcomeContainer,       \* style.display of #welcome-container
    bmiResultContainer,     \* style.display of #bmi-result
    bmiNumberEl,            \* textContent of #bmi-number
    weightClassificationEl, \* textContent of #weight-classification
    idealWeightFromEl,      \* textContent of #from
    idealWeightToEl,        \* textContent of #to
    checked,                \* which unit radio is checked
    pending,                \* the input listener queued by the last edit
    lastCall                \* arguments of the latest updateBmiDisplay call

fieldVars == <<value>>
groupVars == <<metricContainer, imperialContainer>>
viewVars == <<welcomeContainer, bmiResultContainer>>
textVars == <<bmiNumberEl, weightClassificationEl, idealWeightFromEl,
              idealWeightToEl>>
vars == <<value, metricContainer, imperialContainer, welcomeContainer,
          bmiResultContainer, bmiNumberEl, weightClassificationEl,
          idealWeightFromEl, idealWeightToEl, checked, pending, lastCall>>

----------------------------------------------------------------------------
(* Bounds of the model. *)

MaxCm == 210
MaxKg == 130
MaxFt == 7
MaxIn == 12
MaxSt == 20
MaxLbs == 14
MaxBmiHundredths == 3100

----------------------------------------------------------------------------
(* Section 1 of the script: constants. *)

BMI_CATEGORIES ==
    [UNDERWEIGHT |-> <<185, 10>>, HEALTHY |-> <<249, 10>>,
     OVERWEIGHT |-> <<299, 10>>]
IMPERIAL_BMI_FACTOR == 703
INCHES_PER_FOOT == 12
POUNDS_PER_STONE == 14

(* Section 2 of the script: the input groups. *)

metricInputs == <<"height-cm", "weight-kg">>
imperialInputs == <<"height-ft", "height-in", "weight-st", "weight-lbs">>

Range(s) == {s[i] : i \in DOMAIN s}
Fields == Range(metricInputs) \cup Range(imperialInputs)

----------------------------------------------------------------------------
(* Exact rational arithmetic standing for the script's number operators. *)

Rat(n) == <<n, 1>>
RMul(a, b) == <<a[1] * b[1], a[2] * b[2]>>
RDiv(a, b) == <<a[1] * b[2], a[2] * b[1]>>
RLess(a, b) == a[1] * b[2] < b[1] * a[2]

(* Number.prototype.toFixed(1) of a non-negative number: the tenths n for  *)
(* which n/10 is nearest to x; on an exact tie either neighbour.           *)
(* Faulty variant: truncates instead of rounding. *)
toFixedMut(x) == {(10 * x[1]) \div x[2]}
toFixed(x) ==
    LET q == (10 * x[1]) \div x[2]
        r == (10 * x[1]) % x[2]
    IN  IF 2 * r < x[2] THEN {q}
        ELSE IF 2 * r > x[2] THEN {q + 1}
        ELSE {q, q + 1}

(* The decimal string of a count of tenths, as toFixed(1) prints it. *)
TenthsText(n) == ToString(n \div 10) \o "." \o ToString(n % 10)

----------------------------------------------------------------------------
(* parseFloat on a field text. *)

DigitChars == <<"0", "1", "2", "3", "4", "5", "6", "7", "8", "9">>
IsDigit(c) == \E i \in 1..10 : DigitChars[i] = c
DigitVal(c) == (CHOOSE i \in 1..10 : DigitChars[i] = c) - 1

NaN == [nan |-> TRUE, val |-> 0]
Num(n) == [nan |-> FALSE, val |-> n]

RECURSIVE TrimLeft(_)
TrimLeft(s) == IF s # <<>> /\ Head(s) = " " THEN TrimLeft(Tail(s)) ELSE s

RECURSIVE DigitPrefixLen(_)
DigitPrefixLen(s) ==
    IF s # <<>> /\ IsDigit(Head(s)) THEN 1 + DigitPrefixLen(Tail(s)) ELSE 0

RECURSIVE DigitsValue(_, _)
DigitsValue(s, acc) ==
    IF s = <<>> THEN acc
    ELSE DigitsValue(Tail(s), 10 * acc + DigitVal(Head(s)))

parseFloat(s) ==
    LET t == TrimLeft(s)
        signed == t # <<>> /\ Head(t) \in {"-", "+"}
        body == IF signed THEN Tail(t) ELSE t
        k == DigitPrefixLen(body)
        mag == DigitsValue(SubSeq(body, 1, k), 0)
    IN  IF k = 0 THEN NaN
        ELSE IF signed /\ Head(t) = "-" THEN Num(0 - mag)
        ELSE Num(mag)

(* x || 0 : NaN and zero are falsy. *)
OrZero(x) == IF x.nan \/ x.val = 0 THEN 0 ELSE x.val

(* x > 0 : false for NaN. *)
Positive(x) == ~x.nan /\ x.val > 0

(* The text a user types for the non-negative integer n. *)
RECURSIVE Digits(_)
Digits(n) ==
    IF n < 10 THEN <<DigitChars[n + 1]>>
    ELSE Append(Digits(n \div 10), DigitChars[(n % 10) + 1])

----------------------------------------------------------------------------
(* Section 3 of the script: core logic. *)

(* Faulty variants: the HEALTHY comparison left out; <= in place of <. *)
getWeightClassificationSkip(bmi) ==
    IF RLess(bmi, BMI_CATEGORIES.UNDERWEIGHT) THEN "underweight"
    ELSE IF RLess(bmi, BMI_CATEGORIES.OVERWEIGHT) THEN "a healthy weight"
    ELSE "obese"
getWeightClassificationMut(bmi) ==
    IF ~RLess(BMI_CATEGORIES.UNDERWEIGHT, bmi) THEN "underweight"
    ELSE IF ~RLess(BMI_CATEGORIES.HEALTHY, bmi) THEN "a healthy weight"
    ELSE IF ~RLess(BMI_CATEGORIES.OVERWEIGHT, bmi) THEN "overweight"
    ELSE "obese"
getWeightClassification(bmi) ==
    IF RLess(bmi, BMI_CATEGORIES.UNDERWEIGHT) THEN "underweight"
    ELSE IF RLess(bmi, BMI_CATEGORIES.HEALTHY) THEN "a healthy weight"
    ELSE IF RLess(bmi, BMI_CATEGORIES.OVERWEIGHT) THEN "overweight"
    ELSE "obese"

NoCall == [bmi |-> <<0, 1>>, low |-> <<0, 1>>, high |-> <<0, 1>>, unit |-> ""]

updateBmiDisplay(bmi, healthyRange, unit) ==
    /\ \E n \in toFixed(bmi) : bmiNumberEl' = TenthsText(n)
    /\ weightClassificationEl' = getWeightClassification(bmi)
    /\ \E n \in toFixed(healthyRange.low) :
            idealWeightFromEl' = TenthsText(n) \o unit
    /\ \E n \in toFixed(healthyRange.high) :
            idealWeightToEl' = TenthsText(n) \o unit
    /\ welcomeContainer' = "none"
    /\ bmiResultContainer' = "flex"
    /\ lastCall' = [bmi |-> bmi, low |-> healthyRange.low,
                    high |-> healthyRange.high, unit |-> unit]

(* The guard of calculateMetricBMI: heightCm > 0 && weightKg > 0.          *)
(* Faulty variant: the weight is not validated.                           *)
MetricPreconditionMut(heightCm, weightKg) == Positive(heightCm)
MetricPrecondition(heightCm, weightKg) ==
    Positive(heightCm) /\ Positive(weightKg)

calculateMetricBMI ==
    LET heightCm == parseFloat(value["height-cm"])
        weightKg == parseFloat(value["weight-kg"])
    IN  IF MetricPrecondition(heightCm, weightKg)
        THEN LET heightM == RDiv(Rat(heightCm.val), Rat(100))
                 bmi == RDiv(Rat(weightKg.val), RMul(heightM, heightM))
                 healthyWeightLow ==
                     RMul(BMI_CATEGORIES.UNDERWEIGHT, RMul(heightM, heightM))
                 healthyWeightHigh ==
                     RMul(BMI_CATEGORIES.HEALTHY, RMul(heightM, heightM))
             IN  /\ updateBmiDisplay(bmi,
                        [low |-> healthyWeightLow, high |-> healthyWeightHigh],
                        "kgs")
                 /\ UNCHANGED <<fieldVars, groupVars>>
        ELSE UNCHANGED <<fieldVars, groupVars, viewVars, textVars, lastCall>>

(* Unit conversion of calculateImperialBMI. *)
(* Faulty variant: feet converted with the stone factor. *)
TotalHeightInchesMut(heightFt, heightIn) ==
    heightFt * POUNDS_PER_STONE + heightIn
TotalHeightInches(heightFt, heightIn) == heightFt * INCHES_PER_FOOT + heightIn
TotalWeightPounds(weightSt, weightLbs) ==
    weightSt * POUNDS_PER_STONE + weightLbs

(* The guard of calculateImperialBMI on the two totals. *)
(* Faulty variants: the weight total not validated; every field required  *)
(* to be positive.                                                        *)
ImperialPreconditionLax(totalHeightInches, totalWeightPounds) ==
    totalHeightInches > 0
ImperialPreconditionStrict(totalHeightInches, totalWeightPounds) ==
    /\ totalHeightInches > 0 /\ totalWeightPounds > 0
    /\ \A f \in Range(imperialInputs) : Positive(parseFloat(value[f]))
ImperialPrecondition(totalHeightInches, totalWeightPounds) ==
    totalHeightInches > 0 /\ totalWeightPounds > 0

calculateImperialBMI ==
    LET heightFt == OrZero(parseFloat(value["height-ft"]))
        heightIn == OrZero(parseFloat(value["height-in"]))
        weightSt == OrZero(parseFloat(value["weight-st"]))
        weightLbs == OrZero(parseFloat(value["weight-lbs"]))
        totalHeightInches == TotalHeightInches(heightFt, heightIn)
        totalWeightPounds == TotalWeightPounds(weightSt, weightLbs)
    IN  IF ImperialPrecondition(totalHeightInches, totalWeightPounds)
        THEN LET sq == Rat(totalHeightInches * totalHeightInches)
                 bmi == RMul(RDiv(Rat(totalWeightPounds), sq),
                             Rat(IMPERIAL_BMI_FACTOR))
                 healthyWeightLow ==
                     RDiv(RMul(BMI_CATEGORIES.UNDERWEIGHT, sq),
                          Rat(IMPERIAL_BMI_FACTOR))
                 healthyWeightHigh ==
                     RDiv(RMul(BMI_CATEGORIES.HEALTHY, sq),
                          Rat(IMPERIAL_BMI_FACTOR))
             IN  /\ updateBmiDisplay(bmi,
                        [low |-> healthyWeightLow, high |-> healthyWeightHigh],
                        "lbs")
                 /\ UNCHANGED <<fieldVars, groupVars>>
        ELSE UNCHANGED <<fieldVars, groupVars, viewVars, textVars, lastCall>>

----------------------------------------------------------------------------
(* Section 4 of the script: UI and event handling. *)

(* inputsToClear: the inputs of the system being hidden. *)
(* Faulty variants: the shown group cleared instead; nothing cleared. *)
InputsToClearSwapped(isMetric) ==
    IF isMetric THEN metricInputs ELSE imperialInputs
InputsToClearNone(isMetric) == <<>>
InputsToClear(isMetric) == IF isMetric THEN imperialInputs ELSE metricInputs

(* "Reset the display to the welcome message." *)
(* Faulty variant: the view is left as it was. *)
ResetToWelcomeMut == UNCHANGED viewVars
ResetToWelcome ==
    /\ welcomeContainer' = "flex"
    /\ bmiResultContainer' = "none"

switchUnitSystem(systemToShow) ==
    LET isMetric == systemToShow = "metric"
    IN  /\ metricContainer' = IF isMetric THEN "flex" ELSE "none"
        /\ imperialContainer' = IF isMetric THEN "none" ELSE "flex"
        /\ ResetToWelcome
        /\ value' = [f \in Fields |->
                        IF f \in Range(InputsToClear(isMetric)) THEN <<>>
                        ELSE value[f]]
        /\ UNCHANGED <<textVars, lastCall>>

(* The texts the user types into each field in the event model. *)
SampleTexts(f) ==
    CASE f = "height-cm" -> {<<>>, <<"0">>, <<"1", "7", "0">>, <<"-", "5">>}
      [] f = "weight-kg" -> {<<>>, <<"x">>, <<"7", "0">>, <<"0">>}
      [] f = "height-ft" -> {<<>>, <<"5">>, <<"0">>}
      [] f = "height-in" -> {<<>>, <<" ", "9">>, <<"x">>}
      [] f = "weight-st" -> {<<>>, <<"1", "1", "x">>}
      [] f = "weight-lbs" -> {<<>>, <<"0">>, <<"-", "3">>}

GroupOf(f) == IF f \in Range(metricInputs) THEN "metric" ELSE "imperial"
Shown(system) ==
    IF system = "metric" THEN metricContainer # "none"
    ELSE imperialContainer # "none"

(* The page as loaded: fields empty, one input group shown, placeholder up. *)
InitPage(system) ==
    /\ metricContainer = IF system = "metric" THEN "flex" ELSE "none"
    /\ imperialContainer = IF system = "metric" THEN "none" ELSE "flex"
    /\ welcomeContainer = "flex"
    /\ bmiResultContainer = "none"
    /\ bmiNumberEl = ""
    /\ weightClassificationEl = ""
    /\ idealWeightFromEl = ""
    /\ idealWeightToEl = ""
    /\ lastCall = NoCall

Init ==
    /\ value = [f \in Fields |-> <<>>]
    /\ pending = "none"
    /\ \E system \in {"metric", "imperial"} :
            checked = system /\ InitPage(system)

(* The user edits field f: the browser stores the text and queues the      *)
(* group's "input" listener.                                               *)
Edit(f, t) ==
    /\ pending = "none"
    /\ value' = [value EXCEPT ![f] = t]
    /\ pending' = GroupOf(f)
    /\ UNCHANGED <<groupVars, viewVars, textVars, checked, lastCall>>

MetricInputListener ==
    /\ pending = "metric"
    /\ calculateMetricBMI
    /\ pending' = "none"
    /\ UNCHANGED checked

ImperialInputListener ==
    /\ pending = "imperial"
    /\ calculateImperialBMI
    /\ pending' = "none"
    /\ UNCHANGED checked

(* The user checks a unit radio: its "change" listener switches systems. *)
RadioChange(system) ==
    /\ pending = "none"
    /\ checked' = system
    /\ switchUnitSystem(system)
    /\ UNCHANGED pending

Next ==
    \/ \E f \in Fields : \E t \in SampleTexts(f) : Edit(f, t)
    \/ MetricInputListener
    \/ ImperialInputListener
    \/ \E system \in {"metric", "imperial"} : RadioChange(system)

Spec == Init /\ [][Next]_vars

(* The same page driven through its visible controls only: edits reach the *)
(* shown group, and a radio fires "change" only when it becomes checked.   *)
NextUI ==
    \/ \E f \in Fields : \E t \in SampleTexts(f) :
            Shown(GroupOf(f)) /\ Edit(f, t)
    \/ MetricInputListener
    \/ ImperialInputListener
    \/ \E system \in {"metric", "imperial"} :
            checked # system /\ RadioChange(system)

SpecUI == Init /\ [][NextUI]_vars

----------------------------------------------------------------------------
(* One metric calculation for every height 0..MaxCm and weight 0..MaxKg:   *)
(* the user has typed both numbers and the input listener is due.          *)
InitMetricCalc ==
    /\ \E h \in 0..MaxCm : \E w \in 0..MaxKg :
            value = [f \in Fields |->
                        IF f = "height-cm" THEN Digits(h)
                        ELSE IF f = "weight-kg" THEN Digits(w)
                        ELSE <<>>]
    /\ pending = "metric"
    /\ checked = "metric"
    /\ InitPage("metric")

SpecMetricCalc == InitMetricCalc /\ [][MetricInputListener]_vars

(* One imperial calculation for every feet/inches/stone/pounds entry. *)
InitImperialCalc ==
    /\ \E ft \in 0..MaxFt : \E in \in 0..MaxIn :
       \E st \in 0..MaxSt : \E lbs \in 0..MaxLbs :
            value = [f \in Fields |->
                        CASE f = "height-ft" -> Digits(ft)
                          [] f = "height-in" -> Digits(in)
                          [] f = "weight-st" -> Digits(st)
                          [] f = "weight-lbs" -> Digits(lbs)
                          [] OTHER -> <<>>]
    /\ pending = "imperial"
    /\ checked = "imperial"
    /\ InitPage("imperial")

SpecImperialCalc == InitImperialCalc /\ [][ImperialInputListener]_vars

(* The render step applied, on the freshly loaded page, to every BMI of    *)
(* the grid 0.00, 0.01, ... MaxBmiHundredths / 100.                        *)
Render ==
    /\ lastCall = NoCall
    /\ \E n \in 0..MaxBmiHundredths : \E unit \in {"kgs", "lbs"} :
            updateBmiDisplay(<<n, 100>>,
                [low |-> <<535, 10>>, high |-> <<720, 10>>], unit)
    /\ UNCHANGED <<fieldVars, groupVars, checked, pending>>

SpecRender == Init /\ [][Render]_vars

----------------------------------------------------------------------------
(* Vocabulary of the properties. *)

PlaceholderShown == welcomeContainer # "none" /\ bmiResultContainer = "none"
ResultsShown == bmiResultContainer # "none" /\ welcomeContainer = "none"
Other(system) == IF system = "metric" THEN "imperial" ELSE "metric"

(* The number a field holds; an empty or unparsable field holds none. *)
Holds(f) == parseFloat(value[f])
HoldsOrZero(f) == IF Holds(f).nan THEN 0 ELSE Holds(f).val

MetricInputValid ==
    /\ ~Holds("height-cm").nan /\ Holds("height-cm").val > 0
    /\ ~Holds("weight-kg").nan /\ Holds("weight-kg").val > 0
InchesEntered == HoldsOrZero("height-ft") * 12 + HoldsOrZero("height-in")
PoundsEntered == HoldsOrZero("weight-st") * 14 + HoldsOrZero("weight-lbs")
ImperialInputValid == InchesEntered > 0 /\ PoundsEntered > 0

MetricStep == pending = "metric" /\ pending' = "none"
ImperialStep == pending = "imperial" /\ pending' = "none"
SwitchStep == pending = "none" /\ pending' = "none"

(* The band of the BMI n/d by the thresholds 18.5, 24.9 and 29.9. *)
Band(n, d) ==
    IF 10 * n < 185 * d THEN "underweight"
    ELSE IF 10 * n < 249 * d THEN "a healthy weight"
    ELSE IF 10 * n < 299 * d THEN "overweight"
    ELSE "obese"

----------------------------------------------------------------------------
(* C1: when calculateMetricBMI or calculateImperialBMI runs on a height or *)
(* weight that is not strictly positive (or, metric, unparsable), nothing  *)
(* changes: output texts, view and group visibility and all field values   *)
(* stay as they were, also while an earlier result is displayed.           *)
C1_InvalidInputChangesNothing ==
    [][ ( \/ MetricStep /\ ~MetricInputValid
          \/ ImperialStep /\ ~ImperialInputValid )
        => UNCHANGED <<value, groupVars, viewVars, textVars>> ]_vars

(* An earlier metric result is still displayed after the listener ran on a *)
(* zero height.                                                            *)
C1_Witness ==
    /\ pending = "none"
    /\ ResultsShown
    /\ lastCall.unit = "kgs"
    /\ value["height-cm"] = <<"0">>
    /\ value["weight-kg"] = <<"7", "0">>

(* C2: from any state, switchUnitSystem(target) ends with target's input   *)
(* group shown and the other hidden, every field of the hidden group       *)
(* empty, the placeholder shown and the results hidden.                    *)
C2_SwitchResets ==
    [][ SwitchStep =>
          /\ metricContainer' = IF checked' = "metric" THEN "flex" ELSE "none"
          /\ imperialContainer' =
                IF checked' = "metric" THEN "none" ELSE "flex"
          /\ \A f \in Fields : GroupOf(f) # checked' => value'[f] = <<>>
          /\ welcomeContainer' = "flex"
          /\ bmiResultContainer' = "none" ]_vars

(* A switch to imperial taken while a metric result was displayed: the     *)
(* metric fields are cleared, an imperial field keeps its text.            *)
C2_Witness ==
    /\ pending = "none"
    /\ checked = "imperial"
    /\ lastCall.unit = "kgs"
    /\ PlaceholderShown
    /\ value["height-cm"] = <<>> /\ value["weight-kg"] = <<>>
    /\ value["height-ft"] = <<"5">>

(* C3: getWeightClassification returns "underweight" below 18.5, "a        *)
(* healthy weight" from 18.5 to below 24.9, "overweight" from 24.9 to      *)
(* below 29.9 and "obese" from 29.9; each boundary value falls in the      *)
(* upper band.                                                             *)
C3_FourBands ==
    lastCall # NoCall =>
        /\ weightClassificationEl = Band(lastCall.bmi[1], lastCall.bmi[2])
        /\ (lastCall.bmi = <<1850, 100>>
                => weightClassificationEl = "a healthy weight")
        /\ (lastCall.bmi = <<2490, 100>>
                => weightClassificationEl = "overweight")
        /\ (lastCall.bmi = <<2990, 100>>
                => weightClassificationEl = "obese")

(* The boundary 24.9 has been classified. *)
C3_Witness ==
    /\ lastCall.bmi = <<2490, 100>>
    /\ weightClassificationEl = "overweight"

----------------------------------------------------------------------------
(* The tenths k for which k/10 is a nearest one-decimal value of n/d. *)
Dist(a, b) == IF a < b THEN b - a ELSE a - b
NearestTenths(n, d) ==
    {k \in {(10 * n) \div d, (10 * n) \div d + 1} : 2 * Dist(10 * n, k * d) <= d}
OneDecimal(n, d) == {TenthsText(k) : k \in NearestTenths(n, d)}
OneDecimalUnit(n, d, unit) == {TenthsText(k) \o unit : k \in NearestTenths(n, d)}

(* C4: for heightCm > 0 and weightKg > 0 an input event on a metric field  *)
(* shows the results view with BMI = weightKg / (heightCm/100)^2 to one    *)
(* decimal, the band of the unrounded BMI, and the range 18.5 and 24.9     *)
(* times (heightCm/100)^2 to one decimal with suffix "kgs"; 170 cm and     *)
(* 70 kg display 24.2, "a healthy weight", "53.5kgs" and "72.0kgs".        *)
C4_MetricResult ==
    [][ (MetricStep /\ MetricInputValid) =>
          LET h == Holds("height-cm").val
              w == Holds("weight-kg").val
          IN  /\ welcomeContainer' = "none"
              /\ bmiResultContainer' = "flex"
              /\ bmiNumberEl' \in OneDecimal(w * 10000, h * h)
              /\ weightClassificationEl' = Band(w * 10000, h * h)
              /\ idealWeightFromEl' \in OneDecimalUnit(185 * h * h, 100000, "kgs")
              /\ idealWeightToEl' \in OneDecimalUnit(249 * h * h, 100000, "kgs")
              /\ (h = 170 /\ w = 70 =>
                    /\ bmiNumberEl' = "24.2"
                    /\ weightClassificationEl' = "a healthy weight"
                    /\ idealWeightFromEl' = "53.5kgs"
                    /\ idealWeightToEl' = "72.0kgs") ]_vars

(* The example of the claim has been calculated and rendered. *)
C4_Witness ==
    /\ pending = "none"
    /\ value["height-cm"] = <<"1", "7", "0">>
    /\ value["weight-kg"] = <<"7", "0">>
    /\ ResultsShown
    /\ bmiNumberEl = "24.2"
    /\ weightClassificationEl = "a healthy weight"
    /\ idealWeightFromEl = "53.5kgs"
    /\ idealWeightToEl = "72.0kgs"

----------------------------------------------------------------------------
(* C6: the display goes from placeholder to results only in a calculation  *)
(* step whose precondition holds, and from results back to placeholder     *)
(* only in a switchUnitSystem step; once results are shown, clearing or    *)
(* invalidating fields keeps them shown until the next switch.             *)
C6_DisplayTransitions ==
    [][ /\ PlaceholderShown' \/ ResultsShown'
        /\ (PlaceholderShown /\ ResultsShown') =>
              \/ MetricStep /\ MetricInputValid
              \/ ImperialStep /\ ImperialInputValid
        /\ (ResultsShown /\ ~ResultsShown') => SwitchStep ]_vars

(* Stale results: a metric result is still shown after the weight field    *)
(* was cleared and its listener ran.                                       *)
C6_Witness ==
    /\ pending = "none"
    /\ ResultsShown
    /\ lastCall.unit = "kgs"
    /\ value["height-cm"] = <<"1", "7", "0">>
    /\ value["weight-kg"] = <<>>

C8_UnitMatchesSystem ==
    bmiResultContainer # "none" =>
        LET unit == IF metricContainer # "none" THEN "kgs" ELSE "lbs"
        IN  /\ (metricContainer # "none") # (imperialContainer # "none")
            /\ lastCall.unit = unit
            /\ idealWeightFromEl \in
                  OneDecimalUnit(lastCall.low[1], lastCall.low[2], unit)
            /\ idealWeightToEl \in
                  OneDecimalUnit(lastCall.high[1], lastCall.high[2], unit)

(* An imperial result is on display under the imperial group. *)
C8_Witness ==
    /\ pending = "none"
    /\ ResultsShown
    /\ imperialContainer # "none"
    /\ idealWeightFromEl = "94.7lbs"
    /\ idealWeightToEl = "127.5lbs"

(* C9: starting with all fields empty, edits reaching only the visible     *)
(* group and each switch selecting the inactive system: all fields of the  *)
(* hidden group are always empty, every field is empty right after a       *)
(* switch, and between events the placeholder is never shown over field    *)
(* values that satisfy the calculation precondition.                       *)
C9_HiddenEmpty ==
    /\ \A f \in Fields : ~Shown(GroupOf(f)) => value[f] = <<>>
    /\ Shown("metric") # Shown("imperial")
    /\ (pending = "none" /\ PlaceholderShown) =>
          /\ Shown("metric") => ~MetricInputValid
          /\ Shown("imperial") => ~ImperialInputValid
C9_HiddenGroupEmpty ==
    /\ []C9_HiddenEmpty
    /\ [][SwitchStep => \A f \in Fields : value'[f] = <<>>]_vars

(* Right after a switch to imperial that followed a metric result. *)
C9_Witness ==
    /\ pending = "none"
    /\ checked = "imperial"
    /\ imperialContainer # "none"
    /\ PlaceholderShown
    /\ lastCall.unit = "kgs"
    /\ \A f \in Fields : value[f] = <<>>

(* C10, as stated: the band of the one-decimal BMI on display is the       *)
(* classification on display.                                              *)
C10_ShownNumberAgrees ==
    ResultsShown =>
        \A k \in NearestTenths(lastCall.bmi[1], lastCall.bmi[2]) :
            bmiNumberEl = TenthsText(k) => weightClassificationEl = Band(k, 10)

(* C10, amended: the classification on display is the band of the          *)
(* one-decimal BMI on display, except that next to a displayed 18.5, 24.9  *)
(* or 29.9 it may be the band just below (an unrounded BMI under the       *)
(* threshold that rounds up to it).                                        *)
C10_ShownNumberAgreesOffThresholds ==
    ResultsShown =>
        \A k \in NearestTenths(lastCall.bmi[1], lastCall.bmi[2]) :
            bmiNumberEl = TenthsText(k) =>
                IF k \in {185, 249, 299}
                THEN weightClassificationEl \in {Band(k, 10), Band(k - 1, 10)}
                ELSE weightClassificationEl = Band(k, 10)

(* 171 cm and 54 kg: BMI 18.467... is displayed as 18.5, "underweight". *)
C10_Witness ==
    /\ pending = "none"
    /\ value["height-cm"] = <<"1", "7", "1">>
    /\ value["weight-kg"] = <<"5", "4">>
    /\ ResultsShown
    /\ bmiNumberEl = "18.5"
    /\ weightClassificationEl = "underweight"

====
